---- MODULE Spec2Model ----
(***************************************************************************)
(* Model of the TFTP packet parser of src/src/packet.rs.                   *)
(*                                                                         *)
(* Packet::parse is a pure function of its input buffer.  It is modelled   *)
(* as the operator parse, built from one operator per function of the      *)
(* source.  Every operator returns, next to its result, the byte indices   *)
(* it tried to access, whether an index computation underflowed, and the   *)
(* calls of read_until_zero_byte it made, so that the parser's accesses    *)
(* can be stated as properties of a state.                                 *)
(*                                                                         *)
(* Indices are 0-based as in the source; Byte(bytes, i) is bytes[i].       *)
(* A borrowed slice is a record [start, end) of offsets into the input.    *)
(***************************************************************************)
EXTENDS Integers, Sequences, FiniteSets, TLC

VARIABLES bytes, build, pc, result, accessed, underflow, calls

vars == <<bytes, build, pc, result, accessed, underflow, calls>>

(***************************************************************************)
(* Program constants                                                       *)
(***************************************************************************)
READ_OPCODE == 1
WRITE_OPCODE == 2
DATA_OPCODE == 3
ACK_OPCODE == 4
ERROR_OPCODE == 5

\* capacity of the Data payload array, [0; 512]
DataCap == 512

\* stands for usize::MAX, the value len() - 1 wraps to when len() = 0 and
\* overflow checks are off; it is only compared with indices, and like
\* usize::MAX it is above every buffer length (the largest integer TLC has)
UsizeMax == 2147483647

\* "netascii", "octet", "mail"
netascii == <<110, 101, 116, 97, 115, 99, 105, 105>>
octet == <<111, 99, 116, 101, 116>>
mail == <<109, 97, 105, 108>>

(***************************************************************************)
(* Values                                                                  *)
(***************************************************************************)
Byte(b, i) == b[i + 1]

\* the bytes a slice [start, end) of the buffer b borrows
SliceBytes(b, s) == SubSeq(b, s.start + 1, s.end)

Min(a, b) == IF a < b THEN a ELSE b

ErrInvalidOpcode == [kind |-> "Err", error |-> "InvalidOpcode"]
ErrNoZeroByte == [kind |-> "Err", error |-> "NoZeroByte"]
Panic(where) == [kind |-> "Panic", at |-> where]

u16_from_be_bytes(hi, lo) == (hi * 256 + lo) % 65536

(***************************************************************************)
(* std::str::from_utf8: the check the standard library performs.  The      *)
(* returned &str borrows the same bytes, so only validity is computed.     *)
(***************************************************************************)
IsCont(b) == b >= 128 /\ b <= 191

\* number of bytes of the well-formed UTF-8 sequence starting at s[i]
\* (1-based), or 0 when none starts there
Utf8Width(s, i) ==
    LET n == Len(s)
        b0 == s[i]
        b1 == IF i + 1 <= n THEN s[i + 1] ELSE 0
        b2 == IF i + 2 <= n THEN s[i + 2] ELSE 0
        b3 == IF i + 3 <= n THEN s[i + 3] ELSE 0
    IN  IF b0 <= 127 THEN 1
        ELSE IF b0 >= 194 /\ b0 <= 223
            THEN IF IsCont(b1) THEN 2 ELSE 0
        ELSE IF b0 = 224
            THEN IF b1 >= 160 /\ b1 <= 191 /\ IsCont(b2) THEN 3 ELSE 0
        ELSE IF (b0 >= 225 /\ b0 <= 236) \/ b0 = 238 \/ b0 = 239
            THEN IF IsCont(b1) /\ IsCont(b2) THEN 3 ELSE 0
        ELSE IF b0 = 237
            THEN IF b1 >= 128 /\ b1 <= 159 /\ IsCont(b2) THEN 3 ELSE 0
        ELSE IF b0 = 240
            THEN IF b1 >= 144 /\ b1 <= 191 /\ IsCont(b2) /\ IsCont(b3) THEN 4 ELSE 0
        ELSE IF b0 >= 241 /\ b0 <= 243
            THEN IF IsCont(b1) /\ IsCont(b2) /\ IsCont(b3) THEN 4 ELSE 0
        ELSE IF b0 = 244
            THEN IF b1 >= 128 /\ b1 <= 143 /\ IsCont(b2) /\ IsCont(b3) THEN 4 ELSE 0
        ELSE 0

RECURSIVE Utf8From(_, _)
Utf8From(s, i) ==
    IF i > Len(s) THEN TRUE
    ELSE LET w == Utf8Width(s, i)
         IN  IF w = 0 THEN FALSE ELSE Utf8From(s, i + w)

from_utf8(s) == Utf8From(s, 1)

(***************************************************************************)
(* str::to_lowercase on the UTF-8 bytes of a valid string.  ASCII capitals *)
(* map to their small letters.  Of the non-ASCII characters, the two whose *)
(* lowercase form contains an ASCII letter are mapped as Unicode maps      *)
(* them: U+212A KELVIN SIGN to "k", U+0130 to "i" followed by U+0307.      *)
(* Every other multi-byte character lowercases to a non-ASCII character    *)
(* and is copied; none of them can turn into a mode name.                  *)
(***************************************************************************)
RECURSIVE LowerFrom(_, _)
LowerFrom(s, i) ==
    IF i > Len(s) THEN <<>>
    ELSE LET w == Utf8Width(s, i)
             c == SubSeq(s, i, i + w - 1)
             l == IF w = 1 /\ s[i] >= 65 /\ s[i] <= 90 THEN <<s[i] + 32>>
                  ELSE IF c = <<226, 132, 170>> THEN <<107>>
                  ELSE IF c = <<196, 176>> THEN <<105, 204, 135>>
                  ELSE c
         IN  l \o LowerFrom(s, i + w)

to_lowercase(s) == LowerFrom(s, 1)

\* ModeFrom comparing the token as written, without to_lowercase
ModeFrom_CaseSensitive(s) ==
    IF s = netascii THEN "NetAscii"
    ELSE IF s = octet THEN "Octet"
    ELSE IF s = mail THEN "Mail"
    ELSE "panic"

\* impl From<&str> for Mode; "panic" stands for the panic!() arm
ModeFrom(s) ==
    LET l == to_lowercase(s)
    IN  IF l = netascii THEN "NetAscii"
        ELSE IF l = octet THEN "Octet"
        ELSE IF l = mail THEN "Mail"
        ELSE "panic"

(***************************************************************************)
(* read_until_zero_byte.  The cursor is [off, pos]: a Cursor over          *)
(* &bytes[off..] at position pos.  In start..end the loop examines i while *)
(* i < end; get_ref()[i] panics when i is not below the region's length.   *)
(* len() - 1 with len() = 0 panics where overflow checks are on ("debug")  *)
(* and wraps to usize::MAX where they are off ("release").                 *)
(***************************************************************************)
RECURSIVE ScanZero(_, _, _, _)
ScanZero(b, off, i, end) ==
    IF i >= end THEN [found |-> FALSE, oob |-> FALSE, i |-> i]
    ELSE IF off + i >= Len(b) THEN [found |-> FALSE, oob |-> TRUE, i |-> i]
    ELSE IF Byte(b, off + i) = 0 THEN [found |-> TRUE, oob |-> FALSE, i |-> i]
    ELSE ScanZero(b, off, i + 1, end)

\* the value of a call: its result, the cursor it leaves, and what it scanned
\* (off, start and n are the region's offset, the position on entry and len())
ReadValue(cursor, n, res, pos, seen, wrapped) ==
    [res |-> res, cursor |-> [off |-> cursor.off, pos |-> pos],
     off |-> cursor.off, start |-> cursor.pos, n |-> n,
     scanned |-> seen, underflow |-> wrapped]

\* the return paths of the loop and the Err after it
AfterScan(cursor, n, end, sc) ==
    IF sc.oob
    THEN ReadValue(cursor, n, Panic("index"), cursor.pos, cursor.pos..sc.i, n = 0)
    ELSE IF sc.found
    THEN ReadValue(cursor, n,
                   [kind |-> "Ok",
                    slice |-> [start |-> cursor.off + cursor.pos,
                               end |-> cursor.off + sc.i]],
                   sc.i + 1, cursor.pos..sc.i, n = 0)
    ELSE ReadValue(cursor, n, ErrNoZeroByte, cursor.pos,
                   cursor.pos..(end - 1), n = 0)

ReadWithEnd(b, cursor, n, end) ==
    AfterScan(cursor, n, end, ScanZero(b, cursor.off, cursor.pos, end))

ReadRegion(b, cursor, bld, n) ==
    IF n = 0 /\ bld = "debug"
    THEN ReadValue(cursor, n, Panic("overflow"), cursor.pos, {}, TRUE)
    ELSE ReadWithEnd(b, cursor, n, IF n = 0 THEN UsizeMax ELSE n - 1)

\* read_until_zero_byte scanning up to len() instead of len() - 1
read_until_zero_byte_ToLen(b, cursor, bld) ==
    ReadWithEnd(b, cursor, Len(b) - cursor.off, Len(b) - cursor.off)

read_until_zero_byte(b, cursor, bld) ==
    ReadRegion(b, cursor, bld, Len(b) - cursor.off)

\* the indices of the input buffer a call of read_until_zero_byte tried
CallAccessed(c) == {c.off + j : j \in c.scanned}

(***************************************************************************)
(* The decoders.  Each returns [result, accessed, underflow, calls].       *)
(* bytes[i] panics when i is not below the buffer's length; the index is   *)
(* recorded as tried either way.                                           *)
(***************************************************************************)
Outcome(res, acc, under, cs) ==
    [result |-> res, accessed |-> acc, underflow |-> under, calls |-> cs]

\* an outcome that also accessed the indices acc
AlsoAccessed(o, acc) == [o EXCEPT !.accessed = acc \cup @]

\* parse_rwrq from the second read_until_zero_byte on; r1 and r2 are the
\* values of the two calls
RwrqAfterMode(b, op_code, r1, r2) ==
    IF r2.res.kind # "Ok"
    THEN Outcome(r2.res, CallAccessed(r2), r2.underflow, <<r1, r2>>)
    ELSE IF ~from_utf8(SliceBytes(b, r2.res.slice))
    THEN Outcome(Panic("utf8"), CallAccessed(r2), FALSE, <<r1, r2>>)
    ELSE IF ModeFrom(SliceBytes(b, r2.res.slice)) = "panic"
    THEN Outcome(Panic("mode"), CallAccessed(r2), FALSE, <<r1, r2>>)
    ELSE Outcome([kind |-> "Request", op_code |-> op_code,
                  file_name |-> r1.res.slice,
                  mode |-> ModeFrom(SliceBytes(b, r2.res.slice))],
                 CallAccessed(r2), FALSE, <<r1, r2>>)

\* parse_rwrq after the first read_until_zero_byte
RwrqAfterFileName(b, op_code, bld, r1) ==
    IF r1.res.kind # "Ok"
    THEN Outcome(r1.res, CallAccessed(r1), r1.underflow, <<r1>>)
    ELSE IF ~from_utf8(SliceBytes(b, r1.res.slice))
    THEN Outcome(Panic("utf8"), CallAccessed(r1), FALSE, <<r1>>)
    ELSE AlsoAccessed(
            RwrqAfterMode(b, op_code, r1,
                          read_until_zero_byte(b, r1.cursor, bld)),
            CallAccessed(r1))

parse_rwrq(b, op_code, bld) ==
    RwrqAfterFileName(b, op_code, bld,
                      read_until_zero_byte(b, [off |-> 2, pos |-> 0], bld))

\* let block = u16::from_be_bytes([bytes[2], bytes[3]]) of a buffer too short
ShortBlock(b) ==
    IF Len(b) < 3 THEN Outcome(Panic("index"), {2}, FALSE, <<>>)
    ELSE Outcome(Panic("index"), {2, 3}, FALSE, <<>>)

\* BufReader::new(&bytes[off..]).read(&mut data): copies len = min(512,
\* remaining) bytes to the front of data, which starts as [0; 512]
ReadData(b, off, len) ==
    Outcome([kind |-> "Data", op_code |-> DATA_OPCODE,
             block |-> u16_from_be_bytes(Byte(b, 2), Byte(b, 3)),
             data |-> [i \in 1..DataCap |->
                          IF i <= len THEN Byte(b, off + i - 1) ELSE 0],
             len |-> len],
            {2, 3} \cup {off + j : j \in 0..(len - 1)}, FALSE, <<>>)

\* parse_data reading the payload from &bytes[2..], the block number included
parse_data_FromBlock(b) ==
    IF Len(b) < 4 THEN ShortBlock(b)
    ELSE ReadData(b, 2, Min(DataCap, Len(b) - 2))

parse_data(b) ==
    IF Len(b) < 4 THEN ShortBlock(b)
    ELSE ReadData(b, 4, Min(DataCap, Len(b) - 4))

\* parse_ack stamping the Data opcode
parse_ack_DataOpcode(b) ==
    IF Len(b) < 4 THEN ShortBlock(b)
    ELSE Outcome([kind |-> "Ack", op_code |-> DATA_OPCODE,
                  block |-> u16_from_be_bytes(Byte(b, 2), Byte(b, 3))],
                 {2, 3}, FALSE, <<>>)

\* parse_ack reading the block number little-endian
parse_ack_LittleEndian(b) ==
    IF Len(b) < 4 THEN ShortBlock(b)
    ELSE Outcome([kind |-> "Ack", op_code |-> ACK_OPCODE,
                  block |-> u16_from_be_bytes(Byte(b, 3), Byte(b, 2))],
                 {2, 3}, FALSE, <<>>)

parse_ack(b) ==
    IF Len(b) < 4 THEN ShortBlock(b)
    ELSE Outcome([kind |-> "Ack", op_code |-> ACK_OPCODE,
                  block |-> u16_from_be_bytes(Byte(b, 2), Byte(b, 3))],
                 {2, 3}, FALSE, <<>>)

\* parse_error after read_until_zero_byte
ErrorAfterMsg(b, r) ==
    IF r.res.kind # "Ok"
    THEN Outcome(r.res, {2, 3} \cup CallAccessed(r), r.underflow, <<r>>)
    ELSE IF ~from_utf8(SliceBytes(b, r.res.slice))
    THEN Outcome(Panic("utf8"), {2, 3} \cup CallAccessed(r), FALSE, <<r>>)
    ELSE Outcome([kind |-> "Error", op_code |-> ERROR_OPCODE,
                  error_code |-> u16_from_be_bytes(Byte(b, 2), Byte(b, 3)),
                  error_msg |-> r.res.slice],
                 {2, 3} \cup CallAccessed(r), FALSE, <<r>>)

parse_error(b, bld) ==
    IF Len(b) < 4 THEN ShortBlock(b)
    ELSE ErrorAfterMsg(b, read_until_zero_byte(b, [off |-> 4, pos |-> 0], bld))

\* the match of Packet::parse
Dispatch(b, op_code, bld) ==
    IF op_code = READ_OPCODE THEN parse_rwrq(b, op_code, bld)
    ELSE IF op_code = WRITE_OPCODE THEN parse_rwrq(b, op_code, bld)
    ELSE IF op_code = DATA_OPCODE THEN parse_data(b)
    ELSE IF op_code = ACK_OPCODE THEN parse_ack(b)
    ELSE IF op_code = ERROR_OPCODE THEN parse_error(b, bld)
    ELSE Outcome(ErrInvalidOpcode, {}, FALSE, <<>>)

\* parse dispatching on the low opcode byte alone
parse_LowByte(b, bld) ==
    IF Len(b) < 1 THEN Outcome(Panic("index"), {0}, FALSE, <<>>)
    ELSE IF Len(b) < 2 THEN Outcome(Panic("index"), {0, 1}, FALSE, <<>>)
    ELSE AlsoAccessed(Dispatch(b, Byte(b, 1), bld), {0, 1})

\* Packet::parse
parse(b, bld) ==
    IF Len(b) < 1 THEN Outcome(Panic("index"), {0}, FALSE, <<>>)
    ELSE IF Len(b) < 2 THEN Outcome(Panic("index"), {0, 1}, FALSE, <<>>)
    ELSE AlsoAccessed(
            Dispatch(b, u16_from_be_bytes(Byte(b, 0), Byte(b, 1)), bld),
            {0, 1})

(***************************************************************************)
(* Input buffers.  parse takes any byte slice; the model draws it from     *)
(* four families: every short buffer over a small alphabet, and buffers    *)
(* laid out as Request, Error and Data messages, with and without their    *)
(* terminators and with and without bytes after them.                      *)
(***************************************************************************)
\* longest body after the two opcode bytes in the exhaustive family
MaxBody == 5
\* most payload bytes beyond the capacity of the Data array
MaxExcess == 2

SeqsUpTo(S, n) == UNION {[1..k -> S] : k \in 0..n}

HeaderHi == {0, 1, 255}
HeaderLo == {0, 1, 2, 3, 4, 5, 6, 255}
BodyBytes == {0, 97, 255}

RawBuffers ==
    {<<>>, <<0>>, <<5>>}
    \cup {<<h, l>> \o body : h \in HeaderHi, l \in HeaderLo,
                             body \in SeqsUpTo(BodyBytes, MaxBody)}

\* every spelling of an all-lowercase ASCII word in capitals and small letters
CaseVariants(w) ==
    {[i \in 1..Len(w) |-> IF i \in U THEN w[i] - 32 ELSE w[i]] :
        U \in SUBSET (1..Len(w))}

NetAsciiNames == CaseVariants(netascii)
OctetNames == CaseVariants(octet)
MailNames == CaseVariants(mail)
ModeNames == NetAsciiNames \cup OctetNames \cup MailNames

\* "", "octe", "octets", an invalid byte, "ma" U+0130 "l", U+212A
OtherTokens ==
    {<<>>, <<111, 99, 116, 101>>, <<111, 99, 116, 101, 116, 115>>, <<255>>,
     <<109, 97, 196, 176, 108>>, <<226, 132, 170>>}

\* "", "a", "main.rs", an invalid byte, U+00E9
FileNames ==
    {<<>>, <<97>>, <<109, 97, 105, 110, 46, 114, 115>>, <<255>>, <<195, 169>>}

Terminators == {<<>>, <<0>>}
Tails == {<<>>, <<0>>, <<97>>}

RequestBuffers ==
    {<<0, op>> \o f \o t1 \o m \o t2 \o tail :
        op \in {READ_OPCODE, WRITE_OPCODE}, f \in FileNames, t1 \in Terminators,
        m \in ModeNames \cup OtherTokens, t2 \in Terminators, tail \in Tails}

Codes == {<<0, 0>>, <<0, 7>>, <<1, 2>>, <<255, 255>>}

\* "", "error", an invalid byte, U+00E9
Messages == {<<>>, <<101, 114, 114, 111, 114>>, <<255>>, <<195, 169>>}

ErrorBuffers ==
    {<<0, ERROR_OPCODE>> \o c \o m \o t \o tail :
        c \in Codes, m \in Messages, t \in Terminators, tail \in Tails}

Payload(len, seed) == [i \in 1..len |-> (seed + i) % 256]

DataBuffers ==
    {<<0, op>> \o c \o Payload(len, seed) :
        op \in {DATA_OPCODE, ACK_OPCODE}, c \in Codes,
        len \in (DataCap - 1)..(DataCap + MaxExcess), seed \in {0, 200}}

Inputs == RawBuffers \cup RequestBuffers \cup ErrorBuffers \cup DataBuffers

\* overflow checks on (debug profile) or off (release profile)
Builds == {"debug", "release"}

(***************************************************************************)
(* The state machine: a caller holds a buffer and calls Packet::parse.     *)
(***************************************************************************)
Init ==
    /\ bytes \in Inputs
    /\ build \in Builds
    /\ pc = "start"
    /\ result = [kind |-> "None"]
    /\ accessed = {}
    /\ underflow = FALSE
    /\ calls = <<>>

Parse ==
    /\ pc = "start"
    /\ LET o == parse(bytes, build)
       IN  /\ result' = o.result
           /\ accessed' = o.accessed
           /\ underflow' = o.underflow
           /\ calls' = o.calls
    /\ pc' = "done"
    /\ UNCHANGED <<bytes, build>>

Next == Parse

Spec == Init /\ [][Next]_vars

(***************************************************************************)
(* Vocabulary of the properties, read off the input buffer alone.          *)
(***************************************************************************)
Done == pc = "done"

BufLen == Len(bytes)

WireOp == Byte(bytes, 0) * 256 + Byte(bytes, 1)

\* big-endian value of bytes [2..4)
WireWord == Byte(bytes, 2) * 256 + Byte(bytes, 3)

\* the offsets in [lo, hi) that hold a zero byte
ZerosIn(lo, hi) == {i \in lo..(hi - 1) : Byte(bytes, i) = 0}

Least(S) == CHOOSE x \in S : \A y \in S : x <= y

\* the bytes at offsets [lo, hi)
Bytes(lo, hi) == SubSeq(bytes, lo + 1, hi)

ModeNamed(token) ==
    IF token \in NetAsciiNames THEN "NetAscii"
    ELSE IF token \in OctetNames THEN "Octet"
    ELSE "Mail"

\* opcode 1 or 2, filename, 0x00, a mode name, 0x00, and nothing more
IsExactRequest ==
    /\ BufLen >= 4
    /\ WireOp \in {1, 2}
    /\ Cardinality(ZerosIn(2, BufLen)) = 2
    /\ BufLen - 1 \in ZerosIn(2, BufLen)
    /\ Bytes(Least(ZerosIn(2, BufLen)) + 1, BufLen - 1) \in ModeNames

\* opcode 5, error code, message, 0x00, and nothing more
IsExactError ==
    /\ BufLen >= 5
    /\ WireOp = 5
    /\ ZerosIn(4, BufLen) = {BufLen - 1}

\* C1: a buffer that is exactly the Request wire layout parses to a Request
\* with the encoded opcode, the filename bytes and the named mode.
C1_ExactRequestParses ==
    (Done /\ IsExactRequest) =>
        /\ result.kind = "Request"
        /\ result.op_code = WireOp
        /\ SliceBytes(bytes, result.file_name)
              = Bytes(2, Least(ZerosIn(2, BufLen)))
        /\ result.mode
              = ModeNamed(Bytes(Least(ZerosIn(2, BufLen)) + 1, BufLen - 1))

\* C2: a buffer that is exactly the Error wire layout parses to an Error with
\* the big-endian code of bytes [2..4) and the message before the terminator.
C2_ExactErrorParses ==
    (Done /\ IsExactError) =>
        /\ result.kind = "Error"
        /\ result.error_code = WireWord
        /\ SliceBytes(bytes, result.error_msg) = Bytes(4, BufLen - 1)

\* C3: a buffer of at least 4 bytes with opcode 3 parses to Data with the
\* big-endian block of bytes [2..4), len = min(length - 4, 512) and
\* data[0..len) equal to the input bytes [4..4+len).
C3_DataParses ==
    (Done /\ BufLen >= 4 /\ WireOp = 3) =>
        /\ result.kind = "Data"
        /\ result.block = WireWord
        /\ result.len = Min(BufLen - 4, 512)
        /\ \A i \in 0..(result.len - 1) :
              result.data[i + 1] = Byte(bytes, 4 + i)

\* C3 witness: a payload longer than the array is cut to 512 bytes
C3_Witness ==
    /\ Done /\ BufLen > 4 + 512 /\ WireOp = 3
    /\ result.kind = "Data" /\ result.len = 512

\* C4: an opcode outside 1..5 gives InvalidOpcode whatever follows, and an
\* opcode in 1..5 never gives InvalidOpcode.
C4_InvalidOpcode ==
    (Done /\ BufLen >= 2) =>
        /\ WireOp \notin 1..5 => result = ErrInvalidOpcode
        /\ WireOp \in 1..5 => result # ErrInvalidOpcode

\* C4 witness: a two-byte buffer holding opcode 65535 is rejected
C4_Witness ==
    /\ Done /\ BufLen = 2 /\ WireOp = 65535
    /\ result = ErrInvalidOpcode

\* a Request lacks one of its two terminators, or an Error lacks its one
MissingTerminator ==
    \/ BufLen >= 2 /\ WireOp \in {1, 2} /\ Cardinality(ZerosIn(2, BufLen)) < 2
    \/ BufLen >= 4 /\ WireOp = 5 /\ ZerosIn(4, BufLen) = {}

\* C5: a Request or Error buffer in which a required terminating zero byte is
\* missing gives NoZeroByte, also when nothing follows the header.
C5_MissingTerminatorIsNoZeroByte ==
    (Done /\ MissingTerminator) => result = ErrNoZeroByte

\* C6: a successful parse has the variant and the op_code of the wire opcode.
C6_OpcodeMatchesVariant ==
    (Done /\ result.kind \in {"Request", "Data", "Ack", "Error"}) =>
        /\ result.op_code = WireOp
        /\ result.kind = "Request" <=> WireOp \in {1, 2}
        /\ result.kind = "Data" <=> WireOp = 3
        /\ result.kind = "Ack" <=> WireOp = 4
        /\ result.kind = "Error" <=> WireOp = 5

\* C6 witness: an Error packet was returned
C6_Witness == Done /\ BufLen >= 2 /\ WireOp = 5 /\ result.kind = "Error"

SliceInside(sl) == 0 <= sl.start /\ sl.start <= sl.end /\ sl.end <= BufLen

\* C7: while parsing a buffer of at least 2 bytes every index accessed is
\* below the buffer's length, no index computation underflows, and every
\* returned slice and Data prefix lies inside the buffer.
C7_AccessesInBounds ==
    (Done /\ BufLen >= 2) =>
        /\ \A i \in accessed : 0 <= i /\ i < BufLen
        /\ ~underflow
        /\ result.kind = "Request" => SliceInside(result.file_name)
        /\ result.kind = "Error" => SliceInside(result.error_msg)
        /\ result.kind = "Data" => 4 + result.len <= BufLen

\* C8: a buffer of at least 4 bytes with opcode 4 parses to an Ack whose block
\* is the big-endian value of bytes [2..4), whatever follows.
C8_AckParses ==
    (Done /\ BufLen >= 4 /\ WireOp = 4) =>
        /\ result.kind = "Ack"
        /\ result.block = WireWord

\* C8 witness: an Ack with bytes after the block number and a block whose two
\* bytes differ
C8_Witness ==
    /\ Done /\ BufLen > 4 /\ WireOp = 4
    /\ Byte(bytes, 2) # Byte(bytes, 3)
    /\ result.kind = "Ack"

\* what C9 says of the k-th call of read_until_zero_byte
ReaderContract(k) ==
    LET c == calls[k]
        Z == {i \in c.start..(c.n - 2) : Byte(bytes, c.off + i) = 0}
    IN  c.n >= 1 =>
          /\ c.scanned \subseteq c.start..(c.n - 2)
          /\ Z = {} => c.res = ErrNoZeroByte /\ c.cursor.pos = c.start
          /\ Z # {} =>
               /\ c.res.kind = "Ok"
               /\ c.res.slice = [start |-> c.off + c.start,
                                 end |-> c.off + Least(Z)]
               /\ \A j \in 1..Len(SliceBytes(bytes, c.res.slice)) :
                     SliceBytes(bytes, c.res.slice)[j] # 0
               /\ c.cursor.pos = Least(Z) + 1
               /\ k < Len(calls) => calls[k + 1].start = Least(Z) + 1
          /\ c.res.kind = "Ok" => c.res.slice.end < c.off + c.n - 1

FoundTerminators == ZerosIn(2, BufLen - 1)

BothTerminatorsFound ==
    BufLen >= 2 /\ WireOp \in {1, 2} /\ Cardinality(FoundTerminators) >= 2

ModeToken ==
    LET z1 == Least(FoundTerminators)
        z2 == Least(FoundTerminators \ {z1})
    IN  Bytes(z1 + 1, z2)

====
